---- MODULE Spec2Model ----
(***************************************************************************)
(* Scheme IPC core of the kernel (src/kernel/fs/scheme.rs).                *)
(*                                                                         *)
(* One user-space scheme: its SchemeInner (shared state), the              *)
(* SchemeServerResource handles of the provider, the Scheme registered in  *)
(* the VFS, and client contexts calling through Scheme and SchemeResource. *)
(* Scheduling is cooperative: a context runs until it calls                *)
(* context_switch, so every action below is the code executed between two  *)
(* context switches of one context.                                        *)
(*                                                                         *)
(* The kernel's own Vec (src/kernel/common/vec.rs) is modelled next to it: *)
(* one Vec<T>, the memory its data pointer addresses and its operations.   *)
(***************************************************************************)
EXTENDS Integers, Sequences, FiniteSets, TLC

\* ---------------------------------------------------------------- bounds
MaxId      == 2      \* largest value of a usize (usize::MAX), scaled down
MaxServers == 2      \* SchemeServerResource handles alive at once
MaxMem     == 3      \* records in the provider's memory map
MaxLen     == 3      \* largest length the Vec is grown to

\* The client contexts
Clients == { 1, 2 }
Ids     == 1 .. MaxId

\* ------------------------------------------------------------- constants
PAGE_SIZE  == 4096
PacketSize == 40

EBADF  == 9
EFAULT == 14
EINVAL == 22
ENOENT == 2

SchemeName == "pipe"
OtherName  == "file"

\* Result<usize>: Ok(val) or Err(Error::new(val))
Ok(v)  == [ok |-> TRUE,  val |-> v]
Err(e) == [ok |-> FALSE, val |-> e]
\* Result<()> / a discarded result
Unit   == Ok(0)

\* ---------------------------------------------------------------- inputs
\* Buffers a client passes to read/write/path: start address and length.
\* The first lies in a mapped page of the caller at page offset 16, the
\* second in an unmapped page.
UserBufs == { [addr |-> 20496, len |-> 16],
              [addr |-> 40960, len |-> 16] }

\* url.string + "\0" as allocated by the kernel: address and length
UrlStrs == { [addr |-> 28688, len |-> 6] }

\* First word of a reply packet: a success value and an encoded -ENOENT
ReplyWords == { 7, -2 }

\* Lengths of the buffer the provider passes to read/write
ServerLens == { PacketSize, PacketSize - 8, PacketSize + 8 }

\* ------------------------------------------------- external collaborators
\* Context::translate(virt): the caller's page table (pages 5 and 6 mapped)
translate(addr) ==
    IF addr \div PAGE_SIZE = 5 THEN { 3 * PAGE_SIZE + (addr % PAGE_SIZE) }
    ELSE IF addr \div PAGE_SIZE = 6 THEN { 9 * PAGE_SIZE + (addr % PAGE_SIZE) }
    ELSE {}

Min(S) == CHOOSE x \in S : \A y \in S : x <= y

\* The page-aligned bases of the provider's address space
MemPages == 4
Bases == { p * PAGE_SIZE : p \in 1 .. MemPages }

\* The record m covers the page based at v
Covers(m, v) ==
    /\ m.virtual_address <= v
    /\ v < m.virtual_address
           + ((m.virtual_size + PAGE_SIZE - 1) \div PAGE_SIZE) * PAGE_SIZE

\* Context::next_mem(): the lowest unused aligned virtual range base, 0
\* when the provider has none left.  full: the provider's own allocations,
\* which are not part of this model, have used up its address space.
next_mem(mem, full) ==
    LET free == { v \in Bases : \A i \in 1 .. Len(mem) : ~Covers(mem[i], v) }
    IN  IF full \/ free = {} THEN 0 ELSE Min(free)

\* Context::get_mem_mut(virt): index of the first record based at virt, 0 if none
get_mem_mut(mem, virt) ==
    IF \E i \in 1 .. Len(mem) : mem[i].virtual_address = virt
    THEN Min({ i \in 1 .. Len(mem) : mem[i].virtual_address = virt })
    ELSE 0

\* Context::clean_mem(): drop the zero-sized records
clean_mem(mem) == SelectSeq(mem, LAMBDA m : m.virtual_size # 0)

\* Error::demux: a word that is negative as isize is -errno
demux(word) == IF word >= 0 THEN Ok(word) ELSE Err(0 - word)

\* ----------------------------------------------------------------- state
VARIABLES
    schemes,    \* ::env().schemes: names of the schemes in the VFS registry
    strong,     \* strong count of the Arc<SchemeInner>
    servers,    \* SchemeServerResource handles alive
    next_id,    \* SchemeInner.next_id
    todo,       \* SchemeInner.todo: id -> (a, b, c, d)
    done,       \* SchemeInner.done: id -> (a, b, c, d)
    order,      \* ids of todo in the order their insert happened
    memory,     \* (*scheme.context).memory of the provider context
    client,     \* per client context: position and locals of its call
    last        \* the call that ran last and what it gave its caller

\* One Vec<T> of src/kernel/common/vec.rs
VARIABLES
    data,       \* the memory at Vec.data: slot k + 1 is *data.offset(k)
    length,     \* Vec.length
    vlast       \* the Vec operation that ran last and what it returned

vars == <<schemes, strong, servers, next_id, todo, done, order, memory,
          client, last, data, length, vlast>>

\* The variables of the scheme and those of the Vec
scheme == <<schemes, strong, servers, next_id, todo, done, order, memory,
            client, last>>
vec    == <<data, length, vlast>>

\* SchemeInner and the provider's memory map
inner == <<next_id, todo, done, order, memory>>

ZeroPacket == [id |-> 0, a |-> 0, b |-> 0, c |-> 0, d |-> 0]

\* A client context outside a call, owning the SchemeResources fd and
\* holding no lock guard
Idle(fd) == [pc |-> "idle", op |-> "none", id |-> 0, vaddr |-> 0, fd |-> fd,
             locks |-> {}]

\* ctx (0: the provider) ran op with argument arg.  st: op returned without
\* a context switch ("returned"), yielded in SchemeInner::call ("yielded"),
\* or returned after one ("resumed").  ids: the id SchemeInner::call drew or
\* waited for, sub: the Result it returned (both empty when there is none),
\* ret: what op returned, packet: the provider's buffer after op.
Event(ctx, op, arg, st, ids, sub, ret, pkt) ==
    [ctx |-> ctx, op |-> op, arg |-> arg, st |-> st, ids |-> ids,
     sub |-> sub, ret |-> ret, packet |-> pkt]

\* An operation of the provider returned ret
ServerEvent(op, arg, ret, pkt) ==
    Event(0, op, arg, "returned", {}, {}, ret, pkt)

\* The memory the provider process itself owns
ProviderImage == [physical_address |-> 16 * PAGE_SIZE,
                  virtual_address  |-> PAGE_SIZE,
                  virtual_size     |-> PAGE_SIZE,
                  writeable        |-> TRUE,
                  allocated        |-> TRUE]

\* ------------------------------------------------------------------- Vec
\* The values of T, and what a slot holds that no element was written to
Elems   == { 1, 2 }
NoValue == 0

\* Slots of memory from Vec.data on: the longest block and one slot after it
Slots == MaxLen + 1

\* Option<T>
Some(v) == { v }
None    == {}

\* The elements of a Vec of length n whose data pointer addresses d
Elements(d, n) == SubSeq(d, 1, n)

\* The Vec ran op with index i and value v and returned ret; before: the
\* elements it held when op was called
VecEvent(op, i, v, ret) ==
    [op |-> op, i |-> i, value |-> v, ret |-> ret,
     before |-> Elements(data, length)]

\* Vec::new(), the memory at its data pointer not written yet
VecNew ==
    /\ data = [k \in 1 .. Slots |-> NoValue]
    /\ length = 0
    /\ vlast = VecEvent("new", 0, NoValue, None)

\* Indices passed to the Vec: inside it, at its length and past it
Indices == 0 .. MaxLen + 1

\* memory::realloc(data, n * size_of::<T>()): the block keeps its contents
\* up to the smaller of the two sizes; the slots after it are other memory
\* and keep what they hold
realloc(d, n) == d

\* The loop of insert: while j > i, *data.offset(j) = *data.offset(j - 1)
RECURSIVE MoveForward(_, _, _)
MoveForward(d, j, i) ==
    IF j > i THEN MoveForward([d EXCEPT ![j + 1] = d[j]], j - 1, i) ELSE d

\* The loop of remove: while j < length, *data.offset(j) = *data.offset(j + 1)
RECURSIVE MoveBack(_, _, _)
MoveBack(d, j, len) ==
    IF j < len THEN MoveBack([d EXCEPT ![j + 1] = d[j + 2]], j + 1, len) ELSE d

\* Vec::get(i)
VecGet(i) ==
    /\ vlast' = VecEvent("get", i, NoValue,
                         IF i >= length THEN None ELSE Some(data[i + 1]))
    /\ UNCHANGED <<data, length>>
    /\ UNCHANGED scheme

\* A set that refuses the index length
VecSetInside(i, value) ==
    /\ data' = IF i < length THEN [data EXCEPT ![i + 1] = value] ELSE data
    /\ vlast' = VecEvent("set", i, value, None)
    /\ UNCHANGED length
    /\ UNCHANGED scheme

\* Vec::set(i, value)
VecSet(i, value) ==
    /\ data' = IF i <= length THEN [data EXCEPT ![i + 1] = value] ELSE data
    /\ vlast' = VecEvent("set", i, value, None)
    /\ UNCHANGED length
    /\ UNCHANGED scheme

\* Vec::insert(i, value)
VecInsert(i, value) ==
    /\ i <= length => length < MaxLen
    /\ IF i <= length
       THEN /\ length' = length + 1
            /\ data' = [MoveForward(realloc(data, length + 1), length, i)
                            EXCEPT ![i + 1] = value]
       ELSE UNCHANGED <<data, length>>
    /\ vlast' = VecEvent("insert", i, value, None)
    /\ UNCHANGED scheme

\* A remove that does not move the elements after i back
VecRemoveNoMove(i) ==
    /\ IF i < length
       THEN /\ length' = length - 1
            /\ data' = realloc(data, length - 1)
            /\ vlast' = VecEvent("remove", i, NoValue, Some(data[i + 1]))
       ELSE /\ UNCHANGED <<data, length>>
            /\ vlast' = VecEvent("remove", i, NoValue, None)
    /\ UNCHANGED scheme

\* Vec::remove(i)
VecRemove(i) ==
    /\ IF i < length
       THEN /\ length' = length - 1
            /\ data' = realloc(MoveBack(data, i, length - 1), length - 1)
            /\ vlast' = VecEvent("remove", i, NoValue, Some(data[i + 1]))
       ELSE /\ UNCHANGED <<data, length>>
            /\ vlast' = VecEvent("remove", i, NoValue, None)
    /\ UNCHANGED scheme

\* Vec::push(value)
VecPush(value) ==
    /\ length < MaxLen
    /\ length' = length + 1
    /\ data' = [realloc(data, length + 1) EXCEPT ![length + 1] = value]
    /\ vlast' = VecEvent("push", 0, value, None)
    /\ UNCHANGED scheme

\* Vec::pop()
VecPop ==
    /\ IF length > 0
       THEN /\ length' = length - 1
            /\ data' = realloc(data, length - 1)
            /\ vlast' = VecEvent("pop", 0, NoValue, Some(data[length]))
       ELSE /\ UNCHANGED <<data, length>>
            /\ vlast' = VecEvent("pop", 0, NoValue, None)
    /\ UNCHANGED scheme

\* Scheme::new followed by the caller's registration of the Scheme
Init ==
    /\ schemes = { SchemeName, OtherName }
    /\ strong = 1
    /\ servers = 1
    /\ next_id = 1
    /\ todo = << >>
    /\ done = << >>
    /\ order = << >>
    /\ memory = << ProviderImage >>
    /\ client = [c \in Clients |-> Idle({})]
    /\ last = ServerEvent("new", 0, Unit, ZeroPacket)
    /\ VecNew

\* ------------------------------------------------------------ map helpers
MapInsert(m, k, v) == [x \in DOMAIN m \cup {k} |-> IF x = k THEN v ELSE m[x]]
MapRemove(m, k)    == [x \in DOMAIN m \ {k} |-> m[x]]
SeqRemove(s, k)    == SelectSeq(s, LAMBDA x : x # k)

\* ----------------------------------------------------- SchemeInner::call
\* NextId without the reset to 1
NextIdNoReset(id) == (id + 1) % (MaxId + 1)

\* id + 1 on a usize (wrapping, as in a build without overflow checks), then
\* the `next_id <= 0` reset
NextId(id) ==
    LET next == (id + 1) % (MaxId + 1)
    IN  IF next <= 0 THEN 1 ELSE next

\* An upgrade that never fails
UpgradeAlways == TRUE

\* inner.upgrade() succeeds
Upgrade == strong > 0

\* The retire block that follows self.call in every marshaling operation
Retire(mem, virt) ==
    IF Upgrade
    THEN LET i == get_mem_mut(mem, virt)
         IN  clean_mem(IF i > 0
                       THEN [mem EXCEPT ![i].virtual_size = 0]
                       ELSE mem)
    ELSE mem

\* What the operation returns for the Result<usize> of its call
Finish(op, res) ==
    CASE op \in { "mkdir", "unlink", "sync", "truncate" } ->
             IF res.ok THEN Unit ELSE res
      [] op = "close" -> Unit
      [] OTHER -> res

\* The SchemeResources a client owns while the operation runs: drop
\* consumes the one it is called on
HeldFd(op, fd) == IF op = "close" THEN {} ELSE fd

\* An open that hands out a SchemeResource whatever its call returned
FdAfterAnyResult(op, res, fd) ==
    IF op = "open" THEN { res.val } ELSE HeldFd(op, fd)

\* The SchemeResources a client owns after the operation returned
FdAfter(op, res, fd) ==
    IF op = "open" /\ res.ok THEN { res.val } ELSE HeldFd(op, fd)

\* The operation op of client c returns after SchemeInner::call returned
\* res for the ids it drew
Return(c, op, arg, st, ids, res) ==
    /\ client' = [client EXCEPT ![c] = Idle(FdAfter(op, res, client[c].fd))]
    /\ last' = Event(c, op, arg, st, ids, {res}, Finish(op, res), ZeroPacket)

\* The operation op of client c returns Err(errno) without a call
Fail(c, op, arg, errno) ==
    /\ client' = [client EXCEPT ![c] = Idle(client[c].fd)]
    /\ last' = Event(c, op, arg, "returned", {}, {}, Err(errno), ZeroPacket)

\* The lock guards alive in the frame of operation op while it is inside
\* self.call: path, read and write bind the guard of ::env().contexts.lock()
\* to a local that lives to the end of the function; the guards of todo and
\* done are temporaries of one statement
Guards(op) == IF op \in { "path", "read", "write" } THEN { "contexts" } ELSE {}

\* SchemeInner::call(inner, a, b, c, d) from its entry to its first
\* context_switch, called by operation op of client c.  mem is the
\* provider's map at the call and virt the base of the view the operation
\* installed (0: the operation installs none); when call returns at once the
\* operation runs its retire block on mem.
Call(c, op, arg, regs, mem, virt) ==
    IF Upgrade
    THEN LET id == next_id
         IN  /\ next_id' = NextId(id)
             /\ todo' = MapInsert(todo, id, regs)
             /\ order' = IF id \in DOMAIN todo THEN order ELSE Append(order, id)
             /\ IF id \in DOMAIN done
                THEN /\ done' = MapRemove(done, id)
                     /\ Return(c, op, arg, "returned", {id}, demux(done[id][1]))
                     /\ memory' = IF virt > 0 THEN Retire(mem, virt) ELSE mem
                ELSE /\ done' = done
                     /\ client' = [client EXCEPT ![c] =
                                     [pc |-> "blocked", op |-> op, id |-> id,
                                      vaddr |-> virt,
                                      fd |-> HeldFd(op, client[c].fd),
                                      locks |-> Guards(op)]]
                     /\ last' = Event(c, op, arg, "yielded", {id}, {}, Unit,
                                      ZeroPacket)
                     /\ memory' = mem
    ELSE /\ UNCHANGED <<next_id, todo, order, done>>
         /\ Return(c, op, arg, "returned", {}, Err(EBADF))
         /\ memory' = IF virt > 0 THEN Retire(mem, virt) ELSE mem

\* A resumption that takes whatever entry done holds
ResumeAnyEntry(c) ==
    /\ client[c].pc = "blocked"
    /\ IF Upgrade
       THEN \E j \in DOMAIN done :
              /\ done' = MapRemove(done, j)
              /\ Return(c, client[c].op, 0, "resumed", {client[c].id},
                        demux(done[j][1]))
       ELSE /\ done' = done
            /\ Return(c, client[c].op, 0, "resumed", {client[c].id},
                      Err(EBADF))
    /\ memory' = IF client[c].vaddr > 0
                 THEN Retire(memory, client[c].vaddr)
                 ELSE memory
    /\ UNCHANGED <<schemes, strong, servers, next_id, todo, order>>
    /\ UNCHANGED vec

\* The loop of SchemeInner::call after a context_switch: client c is
\* resumed and its operation returns (a resumption that finds nothing in
\* done yields again and changes nothing)
Resume(c) ==
    /\ client[c].pc = "blocked"
    /\ IF Upgrade
       THEN /\ client[c].id \in DOMAIN done
            /\ done' = MapRemove(done, client[c].id)
            /\ Return(c, client[c].op, 0, "resumed", {client[c].id},
                      demux(done[client[c].id][1]))
       ELSE /\ done' = done
            /\ Return(c, client[c].op, 0, "resumed", {client[c].id},
                      Err(EBADF))
    /\ memory' = IF client[c].vaddr > 0
                 THEN Retire(memory, client[c].vaddr)
                 ELSE memory
    /\ UNCHANGED <<schemes, strong, servers, next_id, todo, order>>
    /\ UNCHANGED vec

\* ------------------------------------------------------- SchemeResource
TheFd(c) == CHOOSE f \in client[c].fd : TRUE

\* An unmapped buffer reported as a dead scheme
UnmappedAsEbadf(c, op, buf) ==
    /\ Fail(c, op, buf.addr, EBADF)
    /\ UNCHANGED <<next_id, todo, done, order, memory>>

\* The else branch of `if let Some(physical_address) = current.translate(..)`
Unmapped(c, op, buf) ==
    /\ Fail(c, op, buf.addr, EFAULT)
    /\ UNCHANGED <<next_id, todo, done, order, memory>>

\* read, write and path of SchemeResource: the three bodies differ in the
\* opcode only
FileOp(c, op, opcode, writeable, buf, full) ==
    /\ client[c].pc = "idle"
    /\ (translate(buf.addr) # {} /\ Upgrade) => Len(memory) < MaxMem
    /\ UNCHANGED <<schemes, strong, servers>>
    /\ UNCHANGED vec
    /\ IF translate(buf.addr) = {}
       THEN Unmapped(c, op, buf)
       ELSE LET physical_address == CHOOSE p \in translate(buf.addr) : TRUE
                offset == physical_address % 4096
                virtual_size == ((buf.len + offset + 4095) \div 4096) * 4096
                virtual_address == IF Upgrade THEN next_mem(memory, full) ELSE 0
                mem == IF Upgrade
                       THEN Append(memory,
                                [physical_address |-> physical_address - offset,
                                 virtual_address  |-> virtual_address,
                                 virtual_size     |-> virtual_size,
                                 writeable        |-> writeable,
                                 allocated        |-> FALSE])
                       ELSE memory
            IN  IF virtual_address > 0
                THEN Call(c, op, buf.addr,
                          <<opcode, TheFd(c), virtual_address + offset, buf.len>>,
                          mem, virtual_address)
                ELSE /\ Fail(c, op, buf.addr, EBADF)
                     /\ memory' = mem
                     /\ UNCHANGED <<next_id, todo, done, order>>

Read(c, Bufs, Fulls) ==
    /\ client[c].fd # {}
    /\ \E buf \in Bufs, full \in Fulls :
        FileOp(c, "read", "SYS_READ", TRUE, buf, full)

Write(c, Bufs, Fulls) ==
    /\ client[c].fd # {}
    /\ \E buf \in Bufs, full \in Fulls :
        FileOp(c, "write", "SYS_WRITE", TRUE, buf, full)

Path(c, Bufs, Fulls) ==
    /\ client[c].fd # {}
    /\ \E buf \in Bufs, full \in Fulls :
        FileOp(c, "path", "SYS_FPATH", TRUE, buf, full)

\* seek, sync, truncate and drop of SchemeResource: a call without a buffer
PlainOp(c, op, regs) ==
    /\ client[c].pc = "idle"
    /\ UNCHANGED <<schemes, strong, servers>>
    /\ UNCHANGED vec
    /\ Call(c, op, 0, regs, memory, 0)

SEEK_SET == 0
SEEK_CUR == 1
SEEK_END == 2

\* ResourceSeek values a client passes to seek
SeekPos == { <<"Start", 4>>, <<"Current", 5>>, <<"End", 6>> }

\* A seek that passes whence where the offset belongs
SeekSwapped(c) ==
    /\ client[c].fd # {}
    /\ \E pos \in SeekPos :
        LET whence == CASE pos[1] = "Start"   -> SEEK_SET
                        [] pos[1] = "Current" -> SEEK_CUR
                        [] pos[1] = "End"     -> SEEK_END
            offset == pos[2]
        IN  PlainOp(c, "seek", <<"SYS_LSEEK", TheFd(c), whence, offset>>)

Seek(c) ==
    /\ client[c].fd # {}
    /\ \E pos \in SeekPos :
        LET whence == CASE pos[1] = "Start"   -> SEEK_SET
                        [] pos[1] = "Current" -> SEEK_CUR
                        [] pos[1] = "End"     -> SEEK_END
            offset == pos[2]
        IN  PlainOp(c, "seek", <<"SYS_LSEEK", TheFd(c), offset, whence>>)

Sync(c) ==
    /\ client[c].fd # {}
    /\ PlainOp(c, "sync", <<"SYS_FSYNC", TheFd(c), 0, 0>>)

TruncLens == { 8 }

Truncate(c) ==
    /\ client[c].fd # {}
    /\ \E len \in TruncLens :
        PlainOp(c, "truncate", <<"SYS_FTRUNCATE", TheFd(c), len, 0>>)

\* SchemeResource::dup
Dup(c) ==
    /\ client[c].pc = "idle"
    /\ client[c].fd # {}
    /\ Fail(c, "dup", 0, EBADF)
    /\ UNCHANGED <<schemes, strong, servers, next_id, todo, done, order, memory>>
    /\ UNCHANGED vec

\* A drop that sends no file id
CloseNoFileId(c) ==
    /\ client[c].fd # {}
    /\ PlainOp(c, "close", <<"SYS_CLOSE", 0, 0, 0>>)

\* Drop for SchemeResource: the handle is gone, its close is called and the
\* result discarded
Close(c) ==
    /\ client[c].fd # {}
    /\ PlainOp(c, "close", <<"SYS_CLOSE", TheFd(c), 0, 0>>)

\* --------------------------------------------------------------- Scheme
\* open, mkdir and unlink without the test of virtual_address
VfsOpNoTest(c, op, regs, url, full) ==
    /\ client[c].pc = "idle"
    /\ Upgrade => Len(memory) < MaxMem
    /\ UNCHANGED <<schemes, strong, servers>>
    /\ UNCHANGED vec
    /\ LET physical_address == url.addr
           virtual_address == IF Upgrade THEN next_mem(memory, full) ELSE 0
           mem == IF Upgrade
                  THEN Append(memory,
                           [physical_address |-> physical_address,
                            virtual_address  |-> virtual_address,
                            virtual_size     |-> url.len,
                            writeable        |-> FALSE,
                            allocated        |-> FALSE])
                  ELSE memory
       IN  Call(c, op, url.addr,
                <<regs[1], virtual_address, regs[2], regs[3]>>,
                mem, virtual_address)

\* open, mkdir and unlink of Scheme: the three bodies differ in the opcode
\* and the words after the url
VfsOp(c, op, regs, url, full) ==
    /\ client[c].pc = "idle"
    /\ Upgrade => Len(memory) < MaxMem
    /\ UNCHANGED <<schemes, strong, servers>>
    /\ UNCHANGED vec
    /\ LET physical_address == url.addr
           virtual_address == IF Upgrade THEN next_mem(memory, full) ELSE 0
           mem == IF Upgrade
                  THEN Append(memory,
                           [physical_address |-> physical_address,
                            virtual_address  |-> virtual_address,
                            virtual_size     |-> url.len,
                            writeable        |-> FALSE,
                            allocated        |-> FALSE])
                  ELSE memory
       IN  IF virtual_address > 0
           THEN Call(c, op, url.addr,
                     <<regs[1], virtual_address, regs[2], regs[3]>>,
                     mem, virtual_address)
           ELSE /\ Fail(c, op, url.addr, ENOENT)
                /\ memory' = mem
                /\ UNCHANGED <<next_id, todo, done, order>>

OpenFlags == { 1 }

\* Scheme::open; Fulls: the outcomes of next_mem the provider can show
Open(c, Fulls) ==
    /\ client[c].fd = {}
    /\ \E url \in UrlStrs, flags \in OpenFlags, full \in Fulls :
          VfsOp(c, "open", <<"SYS_OPEN", flags, 0>>, url, full)

Mkdir(c, Fulls) ==
    /\ client[c].pc = "idle"
    /\ \E url \in UrlStrs, flags \in OpenFlags, full \in Fulls :
        VfsOp(c, "mkdir", <<"SYS_MKDIR", flags, 0>>, url, full)

Unlink(c, Fulls) ==
    /\ client[c].pc = "idle"
    /\ \E url \in UrlStrs, full \in Fulls :
        VfsOp(c, "unlink", <<"SYS_UNLINK", 0, 0>>, url, full)

\* ------------------------------------------------- SchemeServerResource
\* SchemeServerResource::dup
ServerDup ==
    /\ servers > 0
    /\ servers < MaxServers
    /\ servers' = servers + 1
    /\ strong' = strong + 1
    /\ last' = ServerEvent("sdup", 0, Unit, ZeroPacket)
    /\ UNCHANGED <<schemes, next_id, todo, done, order, memory, client>>
    /\ UNCHANGED vec

\* A retain with the test inverted
DropInnerInverted(reg, name) == { s \in reg : s = name }

\* Drop for SchemeInner: the registry keeps the schemes of another name
DropInner(reg, name) == { s \in reg : s # name }

\* A SchemeServerResource is dropped; the last one drops the SchemeInner
ServerDrop ==
    /\ servers > 0
    /\ servers' = servers - 1
    /\ strong' = strong - 1
    /\ IF strong - 1 = 0
       THEN /\ schemes' = DropInner(schemes, SchemeName)
            /\ todo' = << >>
            /\ done' = << >>
            /\ order' = << >>
       ELSE UNCHANGED <<schemes, todo, done, order>>
    /\ last' = ServerEvent("sdrop", 0, Unit, ZeroPacket)
    /\ UNCHANGED <<next_id, memory, client>>
    /\ UNCHANGED vec

\* A read that fills the packet and leaves the request in todo
ServerReadPeek(len) ==
    /\ servers > 0
    /\ IF len = PacketSize
       THEN LET id == IF DOMAIN todo # {} THEN Min(DOMAIN todo) ELSE 0
            IN  IF id > 0 /\ id \in DOMAIN todo
                THEN /\ last' = ServerEvent("sread", len, Ok(PacketSize),
                                      [id |-> id, a |-> todo[id][1],
                                       b |-> todo[id][2], c |-> todo[id][3],
                                       d |-> todo[id][4]])
                     /\ UNCHANGED <<todo, order>>
                ELSE /\ last' = ServerEvent("sread", len, Ok(0),
                                            [ZeroPacket EXCEPT !.id = id])
                     /\ UNCHANGED <<todo, order>>
       ELSE /\ last' = ServerEvent("sread", len, Err(EINVAL), ZeroPacket)
            /\ UNCHANGED <<todo, order>>
    /\ UNCHANGED <<schemes, strong, servers, next_id, done, memory, client>>
    /\ UNCHANGED vec

\* SchemeServerResource::read on a zeroed buffer of len bytes
ServerRead(len) ==
    /\ servers > 0
    /\ IF len = PacketSize
       THEN LET id == IF DOMAIN todo # {} THEN Min(DOMAIN todo) ELSE 0
            IN  IF id > 0 /\ id \in DOMAIN todo
                THEN /\ todo' = MapRemove(todo, id)
                     /\ order' = SeqRemove(order, id)
                     /\ last' = ServerEvent("sread", len, Ok(PacketSize),
                                      [id |-> id, a |-> todo[id][1],
                                       b |-> todo[id][2], c |-> todo[id][3],
                                       d |-> todo[id][4]])
                ELSE /\ last' = ServerEvent("sread", len, Ok(0),
                                            [ZeroPacket EXCEPT !.id = id])
                     /\ UNCHANGED <<todo, order>>
       ELSE /\ last' = ServerEvent("sread", len, Err(EINVAL), ZeroPacket)
            /\ UNCHANGED <<todo, order>>
    /\ UNCHANGED <<schemes, strong, servers, next_id, done, memory, client>>
    /\ UNCHANGED vec

\* A write that takes a buffer of any length for a Packet
ServerWriteUnchecked(len, pkt) ==
    /\ servers > 0
    /\ done' = MapInsert(done, pkt.id, <<pkt.a, pkt.b, pkt.c, pkt.d>>)
    /\ last' = ServerEvent("swrite", len, Ok(PacketSize), ZeroPacket)
    /\ UNCHANGED <<schemes, strong, servers, next_id, todo, order, memory,
                   client>>
    /\ UNCHANGED vec

\* SchemeServerResource::write of a buffer of len bytes holding pkt
ServerWrite(len, pkt) ==
    /\ servers > 0
    /\ IF len = PacketSize
       THEN /\ done' = MapInsert(done, pkt.id, <<pkt.a, pkt.b, pkt.c, pkt.d>>)
            /\ last' = ServerEvent("swrite", len, Ok(PacketSize), ZeroPacket)
       ELSE /\ done' = done
            /\ last' = ServerEvent("swrite", len, Err(EINVAL), ZeroPacket)
    /\ UNCHANGED <<schemes, strong, servers, next_id, todo, order, memory,
                   client>>
    /\ UNCHANGED vec

\* The packets the provider writes: any id, first word from Words
Replies(Words) ==
    { [id |-> i, a |-> a, b |-> 0, c |-> 0, d |-> 0] : i \in Ids, a \in Words }

\* ------------------------------------------------------------------ spec
\* The request/reply protocol: two clients open a SchemeResource and drop it
Next ==
    \/ \E c \in Clients : Open(c, {FALSE})
    \/ \E c \in Clients : Close(c)
    \/ \E c \in Clients : Resume(c)
    \/ ServerRead(PacketSize)
    \/ \E pkt \in Replies(ReplyWords) : ServerWrite(PacketSize, pkt)
    \/ ServerDrop

Spec == Init /\ [][Next]_vars

\* The scheduler resumes every context that yielded, and the provider keeps
\* reading requests
FairSpec ==
    /\ Spec
    /\ \A c \in Clients : WF_vars(Resume(c))
    /\ WF_vars(ServerRead(PacketSize))

\* Every operation of Scheme and SchemeResource, called by one client, with
\* a provider that answers the requests it has read
OpsClients == { 1 }

\* First word of the replies of that provider: two file ids or counts and
\* an encoded -ENOENT
OpsReplyWords == { 7, 8, -2 }

Awaited(i) ==
    /\ i \notin DOMAIN todo
    /\ \E c \in Clients : client[c].pc = "blocked" /\ client[c].id = i

\* The provider writes the reply to a request it has read
ServerAnswer(len, pkt) ==
    /\ Awaited(pkt.id)
    /\ ServerWrite(len, pkt)

NextOps ==
    \/ \E c \in OpsClients : Open(c, BOOLEAN)
    \/ \E c \in OpsClients : Mkdir(c, BOOLEAN)
    \/ \E c \in OpsClients : Unlink(c, BOOLEAN)
    \/ \E c \in OpsClients : Read(c, UserBufs, BOOLEAN)
    \/ \E c \in OpsClients : Write(c, UserBufs, BOOLEAN)
    \/ \E c \in OpsClients : Path(c, UserBufs, BOOLEAN)
    \/ \E c \in OpsClients : Seek(c)
    \/ \E c \in OpsClients : Sync(c)
    \/ \E c \in OpsClients : Truncate(c)
    \/ \E c \in OpsClients : Dup(c)
    \/ \E c \in OpsClients : Close(c)
    \/ \E c \in OpsClients : Resume(c)
    \/ \E len \in ServerLens : ServerRead(len)
    \/ \E len \in ServerLens, pkt \in Replies(OpsReplyWords) :
          ServerAnswer(len, pkt)
    \/ ServerDrop

SpecOps == Init /\ [][NextOps]_vars

\* The lifetime of the SchemeInner: the provider duplicates and drops its
\* handles while the clients call; its replies are successes
SuccessWords == { 7 }

NextLife ==
    \/ \E c \in Clients : Open(c, {FALSE})
    \/ \E c \in Clients : Close(c)
    \/ \E c \in Clients : Resume(c)
    \/ ServerRead(PacketSize)
    \/ \E pkt \in Replies(SuccessWords) : ServerWrite(PacketSize, pkt)
    \/ ServerDup
    \/ ServerDrop

SpecLife == Init /\ [][NextLife]_vars

\* Marshaled operations of two clients in flight at once: each opens a
\* SchemeResource, then reads and writes through it, with a provider that
\* answers the requests it has read.  MapBufs: a buffer inside a mapped page
\* and an empty buffer at the start of one.
MapBufs == { [addr |-> 20496, len |-> 16],
             [addr |-> 24576, len |-> 0] }

NextMap ==
    \/ \E c \in Clients : Open(c, {FALSE})
    \/ \E c \in Clients : Read(c, MapBufs, {FALSE})
    \/ \E c \in Clients : Write(c, MapBufs, {FALSE})
    \/ \E c \in Clients : Resume(c)
    \/ ServerRead(PacketSize)
    \/ \E pkt \in Replies(SuccessWords) : ServerAnswer(PacketSize, pkt)

SpecMap == Init /\ [][NextMap]_vars

\* The operations of one Vec, in any order
NextVec ==
    \/ \E v \in Elems : VecPush(v)
    \/ VecPop
    \/ \E i \in Indices, v \in Elems : VecInsert(i, v)
    \/ \E i \in Indices : VecRemove(i)
    \/ \E i \in Indices : VecGet(i)
    \/ \E i \in Indices, v \in Elems : VecSet(i, v)

SpecVec == Init /\ [][NextVec]_vars

\* ---------------------------------------------------------------- claims
ClientEvent(e) == e.ctx \in Clients

\* The step is a client entering an operation (not a resumption)
Entered(e) == ClientEvent(e) /\ e.st \in { "returned", "yielded" }

\* C1: no request id is a key of both todo (pending) and done (completed)
\* at the same time.
C1_PendingCompletedDisjoint == DOMAIN todo \cap DOMAIN done = {}

\* C2: every read of the provider that takes a request takes the one whose
\* insert into todo happened first among those pending (FIFO).
C2_RecvIsFifo ==
    [][\A i \in DOMAIN todo :
          (last'.op = "sread" /\ i \notin DOMAIN todo') => i = Head(order)]_vars

\* C3: next_id starts at 1 and never holds 0; a call takes the current
\* next_id as its id, never 0, and advances next_id by one, to 1 from the
\* largest word.
C3_IdGenerator ==
    /\ next_id = 1
    /\ [](next_id \in 1 .. MaxId)
    /\ [][(Entered(last') /\ last'.ids # {}) =>
             /\ last'.ids = { next_id }
             /\ next_id # 0
             /\ next_id' = IF next_id = MaxId THEN 1 ELSE next_id + 1]_vars

\* A call drew the largest id and next_id wrapped to 1
C3_Witness == last.ids = { MaxId } /\ Entered(last) /\ next_id = 1

\* C4: a client that yielded in SchemeInner::call and whose provider dropped
\* every SchemeServerResource can be resumed, and its resumption returns
\* EBADF from call: it does not stay blocked.
C4_DeadProviderUnblocks ==
    /\ [](\A c \in Clients :
            (client[c].pc = "blocked" /\ strong = 0) => ENABLED Resume(c))
    /\ [][\A c \in Clients :
            (client[c].pc = "blocked" /\ strong = 0 /\ client'[c] # client[c]) =>
                /\ client'[c].pc = "idle"
                /\ last'.ctx = c
                /\ last'.st = "resumed"
                /\ last'.sub = { Err(EBADF) }]_vars

\* A client returned EBADF from a call it was blocked in when the provider died
C4_Witness ==
    /\ strong = 0
    /\ ClientEvent(last)
    /\ last.st = "resumed"
    /\ last.sub = { Err(EBADF) }

\* C5: once every SchemeServerResource is dropped, every operation a client
\* starts (open, mkdir, unlink, read, write, path, seek, sync, truncate)
\* fails with EBADF.
C5_DeadSchemeIsEbadf ==
    (/\ strong = 0
     /\ ClientEvent(last)
     /\ last.st = "returned"
     /\ last.op \in { "open", "mkdir", "unlink", "read", "write", "path",
                      "seek", "sync", "truncate" })
        => last.ret = Err(EBADF)

\* A record that aliases pages owned elsewhere
Aliased(m) == m.virtual_size # 0 /\ ~m.allocated

\* C6: the provider's memory map holds no aliased record of an operation
\* that has returned: every aliased record is the view of an operation that
\* is still inside its call.
C6_NoAliasedRecordLeft ==
    \A i \in 1 .. Len(memory) :
        Aliased(memory[i]) =>
            \E c \in Clients :
                /\ client[c].pc = "blocked"
                /\ client[c].vaddr = memory[i].virtual_address

\* C7: every id inserted into todo is eventually removed from it (the
\* provider keeps reading while it is alive).
C7_PendingEventuallyRemoved ==
    \A i \in Ids : (i \in DOMAIN todo) ~> (i \notin DOMAIN todo)

\* C8: the Scheme is in the registry exactly while a SchemeServerResource is
\* alive; the registry keeps the other schemes; only SchemeServerResources
\* hold strong references.
C8_RegisteredWhileServed ==
    /\ servers > 0 => SchemeName \in schemes
    /\ servers = 0 => SchemeName \notin schemes
    /\ OtherName \in schemes
    /\ strong = servers

\* A duplicate was dropped while a client is blocked: the Scheme stays
C8_Witness ==
    /\ last.op = "sdrop"
    /\ servers = 1
    /\ \E c \in Clients : client[c].pc = "blocked"

\* C9: dropping a SchemeResource of a live provider inserts exactly
\* (SYS_CLOSE, file_id, 0, 0) under the id drawn, and the drop completes on
\* whatever reply, its result discarded; dropping one of a dead provider
\* inserts nothing, does not block and reports nothing.
C9_DropSendsClose ==
    [][\A c \in Clients :
          /\ (last'.ctx = c /\ last'.op = "close" /\ Entered(last') /\ strong > 0) =>
                /\ client[c].fd # {}
                /\ todo' = MapInsert(todo, next_id,
                                     <<"SYS_CLOSE", TheFd(c), 0, 0>>)
                /\ last'.ids = { next_id }
          /\ (last'.ctx = c /\ last'.op = "close" /\ last'.st # "yielded") =>
                /\ client'[c] = Idle({})
                /\ last'.ret = Unit
          /\ (last'.ctx = c /\ last'.op = "close" /\ Entered(last') /\ strong = 0) =>
                /\ last'.st = "returned"
                /\ UNCHANGED inner]_vars

\* A drop was completed by an error reply of the live provider
C9_Witness ==
    /\ last.op = "close"
    /\ last.st = "resumed"
    /\ strong > 0
    /\ \E s \in last.sub : ~s.ok

\* C10: read, write and path on a buffer whose address does not translate
\* return EFAULT and leave the SchemeInner, the registry and the provider's
\* memory map as they were.
C10_UnmappedIsEfault ==
    [][(/\ Entered(last')
        /\ last'.op \in { "read", "write", "path" }
        /\ translate(last'.arg) = {}) =>
            /\ last'.st = "returned"
            /\ last'.ret = Err(EFAULT)
            /\ last'.ids = {}
            /\ UNCHANGED <<inner, schemes, strong, servers>>]_vars

\* A read, write or path on an unmapped buffer returned while the provider
\* was alive
C10_Witness ==
    /\ Entered(last)
    /\ last.op \in { "read", "write", "path" }
    /\ translate(last.arg) = {}
    /\ strong > 0

\* SchemeInner::call returned in this step, having inserted a request
CallReturned(e) ==
    /\ ClientEvent(e)
    /\ e.st \in { "returned", "resumed" }
    /\ e.ids # {}

\* The step removed the entry of id i from done and call returned the
\* decoding of its first word
Consumed(i) ==
    /\ i \in DOMAIN done
    /\ done' = MapRemove(done, i)
    /\ last'.sub = { IF done[i][1] >= 0
                     THEN [ok |-> TRUE, val |-> done[i][1]]
                     ELSE [ok |-> FALSE, val |-> 0 - done[i][1]] }

\* C11 as stated: a call that inserted its request under id i returns only
\* by removing the entry of i from done, and returns the decoding of that
\* entry's first word.
C11_ReturnsOnlyOwnEntry ==
    [][CallReturned(last') => \A i \in last'.ids : Consumed(i)]_vars

\* C11 amended: a call that inserted its request under id i returns either
\* by removing the entry of i from done, with the decoding of that entry's
\* first word, or, once every SchemeServerResource is dropped, with EBADF
\* and done untouched; it never returns the word of another id's entry.
C11_ReturnsOwnEntryOrEbadf ==
    [][CallReturned(last') =>
          \A i \in last'.ids :
              \/ Consumed(i)
              \/ /\ strong = 0
                 /\ last'.sub = { Err(EBADF) }
                 /\ done' = done]_vars

\* An open was resumed by the error reply to its id while another entry
\* stayed in done
C11_Witness ==
    /\ last.op = "open"
    /\ last.st = "resumed"
    /\ strong > 0
    /\ last.sub = { Err(ENOENT) }
    /\ DOMAIN done # {}

\* C12: a read or a write of the provider with a buffer that is not exactly
\* PacketSize long returns EINVAL and leaves todo, done and next_id unchanged.
C12_WrongSizeIsEinval ==
    [][(/\ last'.ctx = 0
        /\ last'.op \in { "sread", "swrite" }
        /\ last'.arg # PacketSize) =>
            /\ last'.ret = Err(EINVAL)
            /\ UNCHANGED <<todo, done, next_id>>]_vars

\* The provider's reply to an awaited request was refused for its length
C12_Witness ==
    /\ last.op = "swrite"
    /\ last.arg > PacketSize
    /\ last.ret = Err(EINVAL)
    /\ \E c \in Clients : client[c].pc = "blocked" /\ Awaited(client[c].id)

\* C13: a read of the provider returns without a context switch; on an
\* empty todo it gives a packet with id 0 and changes neither todo nor done;
\* otherwise it removes exactly one entry of todo and gives its id and four
\* words.  A context yields only inside SchemeInner::call, after its insert.
C13_RecvNeverSuspends ==
    /\ [][(last'.op = "sread" /\ last'.arg = PacketSize) =>
             /\ last'.st = "returned"
             /\ done' = done
             /\ IF DOMAIN todo = {}
                THEN /\ last'.packet.id = 0
                     /\ todo' = todo
                ELSE \E i \in DOMAIN todo :
                        /\ todo' = MapRemove(todo, i)
                        /\ last'.packet = [id |-> i, a |-> todo[i][1],
                                           b |-> todo[i][2], c |-> todo[i][3],
                                           d |-> todo[i][4]]]_vars
    /\ [](last.st = "yielded" => ClientEvent(last) /\ last.ids # {})
    /\ [](last.ctx = 0 => last.st = "returned")

\* A read took one of two pending requests
C13_Witness ==
    /\ last.op = "sread"
    /\ last.packet.id # 0
    /\ DOMAIN todo # {}

FileOps == { "read", "write", "path" }
VfsOps  == { "open", "mkdir", "unlink" }

\* The step is a client entering an operation that pushed a record onto the
\* provider's memory map
Pushed ==
    /\ Entered(last')
    /\ last'.op \in FileOps \cup VfsOps
    /\ Len(memory') = Len(memory) + 1

\* C14: the record an operation pushes is writeable exactly for read and
\* path (not for write, open, mkdir, unlink) and never allocated.
C14_WritableFlags ==
    [][Pushed =>
          LET m == memory'[Len(memory')]
          IN  /\ m.allocated = FALSE
              /\ m.writeable = (last'.op \in { "read", "path" })]_vars

\* The physical address of the buffer an operation was entered with: the
\* translation of a user buffer, the address itself of a kernel string
PhysOf(e) ==
    IF e.op \in FileOps THEN CHOOSE p \in translate(e.arg) : TRUE ELSE e.arg

\* The length of the buffer an operation was entered with
LenOf(e) == (CHOOSE b \in UserBufs \cup UrlStrs : b.addr = e.arg).len

\* C15: the record an operation pushes has the page-aligned physical
\* address phys - phys mod 4096 and the size
\* ceil((len + phys mod 4096) / 4096) * 4096, and the pointer word of the
\* request is the record's virtual address plus phys mod 4096.
C15_PageArithmetic ==
    [][Pushed =>
          LET m == memory'[Len(memory')]
              page_offset == PhysOf(last') % 4096
          IN  /\ m.physical_address = PhysOf(last') - page_offset
              /\ m.virtual_size =
                     ((LenOf(last') + page_offset + 4095) \div 4096) * 4096
              /\ \A i \in last'.ids :
                     todo'[i][IF last'.op \in FileOps THEN 3 ELSE 2] =
                         m.virtual_address + page_offset]_vars

\* C16: when the provider is alive and next_mem returned 0 (the record
\* pushed is based at 0), open, mkdir and unlink return ENOENT and read,
\* write and path return EBADF, without a call: next_id, todo and done are
\* unchanged.
C16_NoRangeFails ==
    [][(Pushed /\ memory'[Len(memory')].virtual_address = 0) =>
          /\ strong > 0
          /\ last'.st = "returned"
          /\ last'.ret = IF last'.op \in VfsOps THEN Err(ENOENT) ELSE Err(EBADF)
          /\ last'.ids = {}
          /\ UNCHANGED <<next_id, todo, done>>]_vars

\* An unlink of a live provider without a free range returned ENOENT
C16_Witness ==
    /\ last.op = "unlink"
    /\ last.ret = Err(ENOENT)
    /\ strong > 0
    /\ Len(memory) > 1
    /\ memory[Len(memory)].virtual_address = 0

\* done holds an entry for id i that no call is waiting for
Unsolicited(i) ==
    /\ i \in DOMAIN done
    /\ \A c \in Clients : ~(client[c].pc = "blocked" /\ client[c].id = i)

\* C17: a write of the provider with a buffer of PacketSize always inserts
\* into done; an entry of done that no call was waiting for when it was
\* written is never consumed by a call: no call returns by removing it.
C17_UnsolicitedNeverConsumed ==
    /\ [][(last'.op = "swrite" /\ last'.arg = PacketSize) =>
             /\ last'.ret = Ok(PacketSize)
             /\ \E i \in Ids : DOMAIN done' = DOMAIN done \cup { i }]_vars
    /\ [][\A i \in DOMAIN done :
             Unsolicited(i) =>
                 ~(/\ CallReturned(last')
                   /\ last'.ids = { i }
                   /\ i \notin DOMAIN done')]_vars

\* C18: a client context holds no lock guard while it has yielded in
\* SchemeInner::call.
C18_NoLockAtYield ==
    \A c \in Clients : client[c].pc = "blocked" => client[c].locks = {}

\* The request that operation e.op of a client holding file id fd submits
\* when its view is based at v
RequestsOf(e, fd, v) ==
    CASE e.op = "open" ->
             { <<"SYS_OPEN", v, flags, 0>> : flags \in OpenFlags }
      [] e.op = "read" ->
             { <<"SYS_READ", fd, v + (PhysOf(e) % 4096), LenOf(e)>> }
      [] e.op = "write" ->
             { <<"SYS_WRITE", fd, v + (PhysOf(e) % 4096), LenOf(e)>> }
      [] e.op = "path" ->
             { <<"SYS_FPATH", fd, v + (PhysOf(e) % 4096), LenOf(e)>> }
      [] e.op = "seek" ->
             { <<"SYS_LSEEK", fd, 4, 0>>, <<"SYS_LSEEK", fd, 5, 1>>,
               <<"SYS_LSEEK", fd, 6, 2>> }
      [] e.op = "sync" -> { <<"SYS_FSYNC", fd, 0, 0>> }
      [] e.op = "truncate" ->
             { <<"SYS_FTRUNCATE", fd, len, 0>> : len \in TruncLens }
      [] e.op = "close" -> { <<"SYS_CLOSE", fd, 0, 0>> }

\* C19: an open submits (SYS_OPEN, V, flags, 0) and, when the reply is a
\* success, returns a SchemeResource with the replied value as file_id;
\* each request through a SchemeResource is the operation's opcode, its
\* file_id, and the operation's two words (seek: offset and whence 0, 1, 2
\* for Start, Current, End).
C19_RequestWords ==
    /\ [][(/\ Entered(last')
           /\ last'.st = "yielded"
           /\ last'.op \notin { "mkdir", "unlink" }) =>
             LET c  == last'.ctx
                 fd == IF last'.op = "open" THEN 0 ELSE TheFd(c)
                 v  == IF last'.op \in FileOps \cup VfsOps
                       THEN memory'[Len(memory')].virtual_address
                       ELSE 0
             IN  /\ last'.op # "open" => client[c].fd # {}
                 /\ \A i \in last'.ids :
                       /\ todo' = MapInsert(todo, i, todo'[i])
                       /\ todo'[i] \in RequestsOf(last', fd, v)]_vars
    /\ [][(CallReturned(last') /\ last'.op = "open") =>
             \A i \in last'.ids :
                 (i \in DOMAIN done /\ done[i][1] >= 0) =>
                     /\ last'.ret = Ok(done[i][1])
                     /\ client'[last'.ctx].fd = { done[i][1] }]_vars

\* A seek from the end through the handle an open got as file id 8 is
\* pending
C19_Witness ==
    /\ last.op = "seek"
    /\ \E i \in DOMAIN todo : todo[i] = <<"SYS_LSEEK", 8, 6, 2>>

\* C20: set(i, value) never changes length; with i < length it overwrites
\* element i, with i = length it writes the slot after the last element,
\* with i > length it writes nothing.
C20_SetWritesUpToLength ==
    [][vlast'.op = "set" =>
          LET i == vlast'.i
          IN  /\ length' = length
              /\ i < length =>
                    /\ data'[i + 1] = vlast'.value
                    /\ \A k \in 1 .. Slots : k # i + 1 => data'[k] = data[k]
              /\ i = length =>
                    /\ data'[length + 1] = vlast'.value
                    /\ \A k \in 1 .. Slots :
                          k # length + 1 => data'[k] = data[k]
              /\ i > length => data' = data]_vars

\* A set at the index length changed the slot after the last element of a
\* Vec that is not empty
C20_Witness ==
    /\ vlast.op = "set"
    /\ vlast.i = length
    /\ length \in 1 .. MaxLen - 1
    /\ data[length + 1] = vlast.value
    /\ data[length] # vlast.value

\* The sequence s with v put before its element i (counted from 0)
InsertAt(s, i, v) == SubSeq(s, 1, i) \o << v >> \o SubSeq(s, i + 1, Len(s))

\* The sequence s without its element i (counted from 0)
RemoveAt(s, i) == SubSeq(s, 1, i) \o SubSeq(s, i + 2, Len(s))

\* C21: on a Vec holding s, insert(i, v) with i <= len(s) gives
\* s[0..i] ++ [v] ++ s[i..] and with i > len(s) changes nothing; remove(i)
\* with i < len(s) returns s[i] and gives s without element i, and with
\* i >= len(s) returns None and changes nothing; a remove(i) right after an
\* insert(i, v) that took place returns v and gives s back; get(i) is None
\* exactly when i >= length.
C21_InsertRemoveGet ==
    [][LET s  == Elements(data, length)
           s2 == Elements(data', length')
           i  == vlast'.i
       IN  /\ vlast'.op = "insert" =>
                 IF i <= Len(s)
                 THEN s2 = InsertAt(s, i, vlast'.value)
                 ELSE s2 = s /\ data' = data
           /\ vlast'.op = "remove" =>
                 IF i < Len(s)
                 THEN vlast'.ret = Some(s[i + 1]) /\ s2 = RemoveAt(s, i)
                 ELSE vlast'.ret = None /\ s2 = s /\ data' = data
           /\ (/\ vlast'.op = "remove"
               /\ vlast.op = "insert"
               /\ vlast.i = i
               /\ vlast.i <= Len(vlast.before)) =>
                 /\ vlast'.ret = Some(vlast.value)
                 /\ s2 = vlast.before
           /\ vlast'.op = "get" =>
                 /\ (vlast'.ret = None) <=> (i >= length)
                 /\ i < length => vlast'.ret = Some(s[i + 1])
                 /\ UNCHANGED <<data, length>>]_vars

\* A remove took the middle element of a Vec of three and left the other
\* two, which differ, in their order
C21_Witness ==
    /\ vlast.op = "remove"
    /\ vlast.i = 1
    /\ Len(vlast.before) = 3
    /\ vlast.ret = Some(vlast.before[2])
    /\ length = 2
    /\ Elements(data, length) = << vlast.before[1], vlast.before[3] >>
    /\ vlast.before[1] # vlast.before[3]

\* Client c is blocked in the call of an operation that installed a view
InFlight(c) == client[c].pc = "blocked" /\ client[c].vaddr > 0

\* The indices of the records of the provider's map based at v
RecordsAt(mem, v) == { i \in 1 .. Len(mem) : mem[i].virtual_address = v }

\* C22: the operations in flight at once own distinct records with
\* distinct virtual bases, and a step that leaves an operation in flight
\* (such as the retirement of another operation's view) leaves its record
\* in the provider's map, unchanged.
C22_ViewsDistinctAndKept ==
    /\ [](\A c \in Clients :
            InFlight(c) =>
                /\ RecordsAt(memory, client[c].vaddr) # {}
                /\ \A c2 \in Clients \ { c } :
                      InFlight(c2) => client[c2].vaddr # client[c].vaddr)
    /\ [][\A c \in Clients :
             (InFlight(c) /\ client'[c] = client[c]) =>
                 { memory'[i] : i \in RecordsAt(memory', client[c].vaddr) } =
                 { memory[i] : i \in RecordsAt(memory, client[c].vaddr) }]_vars

\* C23: an open that fails leaves its caller without a SchemeResource; a
\* client comes to own a SchemeResource only by an open that returned Ok,
\* with the file_id of that result; every SYS_CLOSE request put into todo
\* is put there by the drop of a SchemeResource its caller owned, carries
\* that SchemeResource's file_id, and takes the SchemeResource away, so the
\* SYS_CLOSE requests never outnumber the opens that returned Ok.
C23_CloseOnlyOfOpened ==
    [][/\ \A c \in Clients :
             (client'[c].fd # client[c].fd /\ client'[c].fd # {}) =>
                 /\ last'.ctx = c
                 /\ last'.op = "open"
                 /\ last'.st \in { "returned", "resumed" }
                 /\ last'.ret.ok
                 /\ client'[c].fd = { last'.ret.val }
       /\ (ClientEvent(last') /\ last'.op = "open" /\ ~last'.ret.ok) =>
             client'[last'.ctx].fd = {}
       /\ \A i \in DOMAIN todo' :
             (/\ todo'[i][1] = "SYS_CLOSE"
              /\ i \in DOMAIN todo => todo[i] # todo'[i]) =>
                 /\ Entered(last')
                 /\ last'.op = "close"
                 /\ last'.ids = { i }
                 /\ client[last'.ctx].fd = { todo'[i][2] }
                 /\ client'[last'.ctx].fd = {}
       /\ (Entered(last') /\ last'.op = "close" /\ last' # last) =>
             /\ client[last'.ctx].fd # {}
             /\ client'[last'.ctx].fd = {}
             /\ \A i \in last'.ids :
                   todo'[i] = <<"SYS_CLOSE", TheFd(last'.ctx), 0, 0>>]_vars

\* An open failed and left its caller without a SchemeResource, while the
\* SYS_CLOSE of the SchemeResource of an earlier open is still in todo
C23_Witness ==
    /\ ClientEvent(last)
    /\ last.op = "open"
    /\ ~last.ret.ok
    /\ client[last.ctx].fd = {}
    /\ \E i \in DOMAIN todo : todo[i] \in { <<"SYS_CLOSE", 7, 0, 0>>,
                                              <<"SYS_CLOSE", 8, 0, 0>> }

====
